---- MODULE Spec2Model ----
(***************************************************************************)
(* Model of claude_codex_bridge/bridge_server.py: the Process Invoker      *)
(* (invoke_codex_cli), the Output Resolver (parse_codex_output and its     *)
(* helpers) and the orchestration entry point (codex_delegate).            *)
(*                                                                         *)
(* Text is a sequence of one-character strings.  Indices of the string     *)
(* helpers are 0-based as in Python; text[i:j] is Slice(text, i, j).       *)
(* An Optional value is None (the empty tuple) or Some(v) (a 1-tuple).     *)
(***************************************************************************)
EXTENDS Integers, Sequences, FiniteSets, TLC

\* ------------------------------------------------------------------------
\* Bounds of the model
\* ------------------------------------------------------------------------
\* longest enumerated output text given to the resolver
MaxLen == 4
\* longest enumerated caller-supplied wrapper delimiter
MaxDelimLen == 2
\* most fragments joined into one output text given to the type detection
MaxFrags == 4
\* longest enumerated delimiter given to the display escaping
MaxEscLen == 3

\* ------------------------------------------------------------------------
\* Optional values
\* ------------------------------------------------------------------------
None == << >>
Some(v) == << v >>
IsNone(o) == o = None
Val(o) == o[1]

\* ------------------------------------------------------------------------
\* Python str operations
\* ------------------------------------------------------------------------
Whitespace == {" ", "\n", "\t"}

SetMin(S) == CHOOSE x \in S : \A y \in S : x <= y
SetMax(S) == CHOOSE x \in S : \A y \in S : x >= y

\* text[i:j] for 0 <= i, j <= len(text)
Slice(text, i, j) == SubSeq(text, i + 1, j)

\* all 0-based positions at which pat occurs in text
Occurrences(text, pat) ==
    { i \in 0..(Len(text) - Len(pat)) : Slice(text, i, i + Len(pat)) = pat }

\* str.find: first occurrence or -1
Find(text, pat) ==
    IF Occurrences(text, pat) = {} THEN -1 ELSE SetMin(Occurrences(text, pat))

\* str.rfind: last occurrence or -1
RFind(text, pat) ==
    IF Occurrences(text, pat) = {} THEN -1 ELSE SetMax(Occurrences(text, pat))

\* the `in` operator on str
Contains(text, pat) == Occurrences(text, pat) # {}

\* str.lstrip()
LStrip(text) ==
    LET keep == { i \in 1..Len(text) : text[i] \notin Whitespace }
    IN  IF keep = {} THEN << >> ELSE SubSeq(text, SetMin(keep), Len(text))

\* str.rstrip()
RStrip(text) ==
    LET keep == { i \in 1..Len(text) : text[i] \notin Whitespace }
    IN  IF keep = {} THEN << >> ELSE SubSeq(text, 1, SetMax(keep))

\* str.strip()
Strip(text) == LStrip(RStrip(text))

\* str.count: number of non-overlapping occurrences, scanning left to right
RECURSIVE CountFrom(_, _, _)
CountFrom(text, pat, from) ==
    LET later == { i \in Occurrences(text, pat) : i >= from }
    IN  IF later = {} THEN 0
        ELSE 1 + CountFrom(text, pat, SetMin(later) + Len(pat))

Count(text, pat) == CountFrom(text, pat, 0)

\* str.lower() on the characters the model uses
LowerChar(ch) ==
    CASE ch = "A" -> "a"
      [] ch = "B" -> "b"
      [] ch = "C" -> "c"
      [] ch = "D" -> "d"
      [] ch = "E" -> "e"
      [] ch = "F" -> "f"
      [] ch = "I" -> "i"
      [] ch = "N" -> "n"
      [] ch = "O" -> "o"
      [] ch = "T" -> "t"
      [] ch = "X" -> "x"
      [] OTHER -> ch

Lower(text) == [ i \in 1..Len(text) |-> LowerChar(text[i]) ]

\* all sequences over alphabet S of length at most n
RECURSIVE SeqsUpTo(_, _)
SeqsUpTo(S, n) ==
    IF n = 0 THEN { << >> }
    ELSE LET shorter == SeqsUpTo(S, n - 1)
         IN  shorter \cup { Append(s, x) : s \in shorter, x \in S }

\* ------------------------------------------------------------------------
\* Module-level configuration and literals of the resolver
\* ------------------------------------------------------------------------
FINAL_OUTPUT_DELIMITER ==
    <<"=", "x", "=", "x", "=", "x", "=", "x", "=", "x", "=", "x", "=", "x", "=">>
default_start_delimiter == <<"-", "-", "[", "=", "[">>
default_end_delimiter == <<"]", "=", "]", "-", "-">>
\* a slip: strict enforcement switched on when the caller leaves it unset
DefaultStrictOn == TRUE
default_strict == FALSE

DiffOldMarker == <<"-", "-", "-", " ", "a", "/">>
DiffNewMarker == <<"+", "+", "+", " ", "b", "/">>
\* the triple-backtick fence; the backtick is written "^" in this model
Fence == <<"^", "^", "^">>
Keywords ==
    { <<"f", "i", "l", "e", ":">>,
      <<"c", "l", "a", "s", "s", " ">>,
      <<"f", "u", "n", "c", "t", "i", "o", "n", " ">>,
      <<"d", "e", "f", " ">>,
      <<"i", "m", "p", "o", "r", "t", " ">> }

\* ------------------------------------------------------------------------
\* Output Resolver
\* ------------------------------------------------------------------------
\* a slip: the end delimiter is searched from the left as well
ExtractWrappedFirstEnd(text, start_delimiter, end_delimiter) ==
    LET start_idx == Find(text, start_delimiter)
        search_start == start_idx + Len(start_delimiter)
        end_idx == Find(text, end_delimiter)
    IN  IF start_idx = -1 THEN None
        ELSE IF end_idx = -1 \/ end_idx < search_start THEN None
        ELSE Some(Slice(text, search_start, end_idx))

\* _extract_wrapped_content: Some(content) or None
_extract_wrapped_content(text, start_delimiter, end_delimiter) ==
    LET start_idx == Find(text, start_delimiter)
        search_start == start_idx + Len(start_delimiter)
        end_idx == RFind(text, end_delimiter)
    IN  IF start_idx = -1 THEN None
        ELSE IF end_idx = -1 \/ end_idx < search_start THEN None
        ELSE Some(Slice(text, search_start, end_idx))

\* _extract_after_delimiter
_extract_after_delimiter(text, delimiter) ==
    LET idx == Find(text, delimiter)
    IN  IF idx = -1 THEN text
        ELSE LStrip(Slice(text, idx + Len(delimiter), Len(text)))

\* str.replace(old, new) for a one-character old
RECURSIVE Replace(_, _, _)
Replace(text, old, new) ==
    IF text = << >> THEN << >>
    ELSE (IF Head(text) = old THEN new ELSE <<Head(text)>>)
         \o Replace(Tail(text), old, new)

\* a slip: only the opening bracket is escaped
EscapeOpenOnly(delimiter) == Replace(delimiter, "[", <<"\\", "[">>)

\* _escape_delimiter_for_display: '[' -> '\[' and then ']' -> '\]'
_escape_delimiter_for_display(delimiter) ==
    Replace(Replace(delimiter, "[", <<"\\", "[">>), "]", <<"\\", "]">>)

\* a slip: the single delimiter is tried before the wrapper pair
ResolveDelimitersSingleFirst(stdout, delimiter, start_delimiter, end_delimiter) ==
    IF ~IsNone(delimiter) THEN
        IF Contains(stdout, Val(delimiter))
        THEN [processed |-> _extract_after_delimiter(stdout, Val(delimiter)),
              has_delimiter |-> TRUE]
        ELSE [processed |-> stdout, has_delimiter |-> FALSE]
    ELSE IF ~IsNone(start_delimiter) /\ ~IsNone(end_delimiter) THEN
        LET extracted_content ==
                _extract_wrapped_content(stdout, Val(start_delimiter),
                                         Val(end_delimiter))
        IN  IF ~IsNone(extracted_content)
            THEN [processed |-> Val(extracted_content), has_delimiter |-> TRUE]
            ELSE [processed |-> stdout, has_delimiter |-> FALSE]
    ELSE
        LET extracted_content ==
                _extract_wrapped_content(stdout, default_start_delimiter,
                                         default_end_delimiter)
        IN  IF ~IsNone(extracted_content)
            THEN [processed |-> Val(extracted_content), has_delimiter |-> TRUE]
            ELSE IF Contains(stdout, FINAL_OUTPUT_DELIMITER)
            THEN [processed |->
                      _extract_after_delimiter(stdout, FINAL_OUTPUT_DELIMITER),
                  has_delimiter |-> TRUE]
            ELSE [processed |-> stdout, has_delimiter |-> FALSE]

\* the delimiter-extraction part of parse_codex_output:
\* the text to classify and whether a delimiter was found
ResolveDelimiters(stdout, delimiter, start_delimiter, end_delimiter) ==
    IF ~IsNone(start_delimiter) /\ ~IsNone(end_delimiter) THEN
        LET extracted_content ==
                _extract_wrapped_content(stdout, Val(start_delimiter),
                                         Val(end_delimiter))
        IN  IF ~IsNone(extracted_content)
            THEN [processed |-> Val(extracted_content), has_delimiter |-> TRUE]
            ELSE [processed |-> stdout, has_delimiter |-> FALSE]
    ELSE IF ~IsNone(delimiter) THEN
        IF Contains(stdout, Val(delimiter))
        THEN [processed |-> _extract_after_delimiter(stdout, Val(delimiter)),
              has_delimiter |-> TRUE]
        ELSE [processed |-> stdout, has_delimiter |-> FALSE]
    ELSE
        LET extracted_content ==
                _extract_wrapped_content(stdout, default_start_delimiter,
                                         default_end_delimiter)
        IN  IF ~IsNone(extracted_content)
            THEN [processed |-> Val(extracted_content), has_delimiter |-> TRUE]
            ELSE IF Contains(stdout, FINAL_OUTPUT_DELIMITER)
            THEN [processed |->
                      _extract_after_delimiter(stdout, FINAL_OUTPUT_DELIMITER),
                  has_delimiter |-> TRUE]
            ELSE [processed |-> stdout, has_delimiter |-> FALSE]

\* Python truthiness of an Optional[str]: None and "" are falsy
Truthy(o) == ~IsNone(o) /\ Val(o) # << >>

\* the expected_delimiters text of the strict-mode error, by its parts
ExpectedDelimiters(delimiter, start_delimiter, end_delimiter) ==
    IF Truthy(start_delimiter) /\ Truthy(end_delimiter)
    THEN [kind |-> "wrapper", start |-> Val(start_delimiter),
          end |-> Val(end_delimiter)]
    ELSE IF Truthy(delimiter)
    THEN [kind |-> "single", delimiter |-> Val(delimiter)]
    ELSE [kind |-> "defaults", start |-> default_start_delimiter,
          end |-> default_end_delimiter, legacy |-> FINAL_OUTPUT_DELIMITER]

\* the auto-detected output type
DetectType(processed) ==
    IF Contains(processed, DiffOldMarker) /\ Contains(processed, DiffNewMarker)
    THEN "diff"
    ELSE IF Contains(processed, Fence) /\ Count(processed, Fence) >= 2
    THEN "code"
    ELSE IF \E keyword \in Keywords : Contains(Lower(processed), keyword)
    THEN "code"
    ELSE "explanation"

\* the content field of the strict-mode error
StrictErrorContent(stdout) == Strip(stdout)

\* parse_codex_output: the returned dict
parse_codex_output(stdout, output_format, delimiter, start_delimiter, end_delimiter, strict) ==
    LET r == ResolveDelimiters(stdout, delimiter, start_delimiter,
                               end_delimiter)
        resolved_strict == IF ~IsNone(strict) THEN Val(strict)
                           ELSE default_strict
        output_type == DetectType(r.processed)
    IN  IF resolved_strict /\ ~r.has_delimiter
        THEN [status |-> "error",
              error_type |-> "final_output_delimiter_missing",
              expected_delimiters |->
                  ExpectedDelimiters(delimiter, start_delimiter, end_delimiter),
              format |-> output_format,
              content |-> StrictErrorContent(stdout)]
        ELSE [status |-> "success",
              type |-> output_type,
              content |-> Strip(r.processed),
              format |-> output_format,
              detected_type |-> output_type]


\* ------------------------------------------------------------------------
\* State
\* ------------------------------------------------------------------------
VARIABLES
    parse_args,    \* arguments of a direct call of parse_codex_output
    parse_result,  \* None, or Some(dict) once parse_codex_output returned
    escape_arg,    \* argument of a direct call of _escape_delimiter_for_display
    escape_result, \* None, or Some(text) once the escaping returned
    start_allow_write, \* the write allowance the environment gave at server start
    environ,       \* os.environ: the value of CODEX_ALLOW_WRITE
    pc,            \* per call: where the coroutine is suspended
    frame,         \* per call: arguments and locals of the running call
    proc,          \* per call: the agent subprocess as the event loop sees it
    events,        \* per call: collaborators consulted and process operations
    outcome        \* per call: None, or what the call returned or raised

vars ==
    <<parse_args, escape_arg, escape_result, start_allow_write,
      parse_result, environ, pc, frame, proc, events, outcome>>

\* the concurrent call slots of the server
Calls == {"c1"}

\* ------------------------------------------------------------------------
\* Input domains
\* ------------------------------------------------------------------------
ExecutionModes == {"on-failure", "never"}
SandboxModes == {"read-only", "workspace-write", "danger-full-access"}
OutputFormats == {"diff", "explanation"}
Complexities == {"medium"}
Tasks == { <<"f", "i", "x">>, <<"-", "v">> }
WorkingDirs == { <<"/", "w">> }
EnvValues == {"unset", "true", "TRUE", "false"}
\* exit codes: success, failure, ended by SIGTERM, ended by SIGKILL
ExitCodes == {0, 1, -15, -9}
\* what a collaborator call can do: answer, or raise
Answers == {"true", "false", "fault"}
Preparations == {"same", "augmented", "fault"}

\* caller-supplied wrapper delimiters of codex_delegate
StartArgs == { None, Some(<<"<">>) }
EndArgs == { None, Some(<<">">>) }
StrictArgs == { None, Some(TRUE), Some(FALSE) }

\* byte streams of the agent: a decoded text, or bytes that are not UTF-8
Bytes(text) == [valid |-> TRUE, text |-> text]
NotUtf8 == [valid |-> FALSE, text |-> <<"?">>]
StdoutTexts ==
    { << >>,
      <<" ", "o", "k", "\n">>,
      <<"<", " ", "a", ">", "b", ">", " ">>,
      <<"p", " ">> \o default_start_delimiter \o <<" ", "d">>
          \o default_end_delimiter,
      <<"p", " ">> \o FINAL_OUTPUT_DELIMITER \o <<" ", "r", "\n">> }
StderrTexts == { << >>, <<" ">>, <<"e", " ">> }
StdoutStreams == { Bytes(t) : t \in StdoutTexts } \cup { NotUtf8 }
StderrStreams == { Bytes(t) : t \in StderrTexts } \cup { NotUtf8 }

\* ------------------------------------------------------------------------
\* Process Invoker: command construction
\* ------------------------------------------------------------------------
\* default of the timeout parameter, in seconds
DefaultTimeout == 3600
\* bound of the wait after terminate, in seconds
GraceSeconds == 5

Range(s) == { s[i] : i \in 1..Len(s) }

\* a slip: the prompt follows the flags with no end-of-flags marker
BuildCommandNoMarker(prompt, working_directory, execution_mode, sandbox_mode, task_complexity, allow_write) ==
    <<  <<"codex">>, <<"exec">>, <<"-C">>, working_directory >>
    \o (IF ~allow_write
        THEN << <<"-c">>, <<"sandbox_permissions=[]">> >>
        ELSE << >>)
    \o (IF execution_mode = "on-failure" /\ sandbox_mode = "workspace-write"
           /\ allow_write
        THEN << <<"--full-auto">> >>
        ELSE << <<"-s">>, <<sandbox_mode>> >>)
    \o << <<"-c">>, <<"model_reasoning_effort=\"", task_complexity, "\"">> >>
    \o << prompt >>

\* a slip: --full-auto chosen without looking at allow_write
BuildCommandFullAutoUnchecked(prompt, working_directory, execution_mode, sandbox_mode, task_complexity, allow_write) ==
    <<  <<"codex">>, <<"exec">>, <<"-C">>, working_directory >>
    \o (IF ~allow_write
        THEN << <<"-c">>, <<"sandbox_permissions=[]">> >>
        ELSE << >>)
    \o (IF execution_mode = "on-failure" /\ sandbox_mode = "workspace-write"
        THEN << <<"--full-auto">> >>
        ELSE << <<"-s">>, <<sandbox_mode>> >>)
    \o << <<"-c">>, <<"model_reasoning_effort=\"", task_complexity, "\"">> >>
    \o << <<"--">> >>
    \o << prompt >>

\* the command line, one token sequence per argument
BuildCommand(prompt, working_directory, execution_mode, sandbox_mode, task_complexity, allow_write) ==
    <<  <<"codex">>, <<"exec">>, <<"-C">>, working_directory >>
    \o (IF ~allow_write
        THEN << <<"-c">>, <<"sandbox_permissions=[]">> >>
        ELSE << >>)
    \o (IF execution_mode = "on-failure" /\ sandbox_mode = "workspace-write"
           /\ allow_write
        THEN << <<"--full-auto">> >>
        ELSE << <<"-s">>, <<sandbox_mode>> >>)
    \o << <<"-c">>, <<"model_reasoning_effort=\"", task_complexity, "\"">> >>
    \o << <<"--">> >>
    \o << prompt >>

\* the argument pair <<flag, value>> occurs in the command
HasPair(command, flag, value) ==
    \E i \in 1..(Len(command) - 1) :
        command[i] = flag /\ command[i + 1] = value


\* ------------------------------------------------------------------------
\* Process Invoker: what invoke_codex_cli returns or raises
\* ------------------------------------------------------------------------
Return(v) == [kind |-> "return", value |-> v]
Raise(e) == [kind |-> "raise", exc |-> e]

\* bytes objects are falsy when empty
IsEmptyBytes(b) == b.valid /\ b.text = << >>

\* bytes.decode("utf-8") raised
UnicodeDecodeError ==
    [type |-> "UnicodeDecodeError", message |-> [text |-> "invalid utf-8"]]

\* raised in place of FileNotFoundError when the executable is missing
NotFoundError ==
    [type |-> "RuntimeError",
     message |-> [text |-> "codex command not found"]]

\* raised for a nonzero exit code
ExecutionFailedError(returncode, error_message) ==
    [type |-> "RuntimeError",
     message |-> [text |-> "Codex CLI execution failed",
                  exit_code |-> returncode,
                  detail |-> error_message]]

\* a slip: the timeout is reported as a generic failure
TimeoutAsRuntimeError(timeout) ==
    [type |-> "RuntimeError",
     message |-> [text |-> "Codex CLI execution timed out",
                  seconds |-> timeout]]

\* raised once the timed-out process is gone
TimeoutError(timeout) ==
    [type |-> "TimeoutError",
     message |-> [text |-> "Codex CLI execution timed out",
                  seconds |-> timeout]]

\* the code after communicate() returned within the bound
AfterCommunicate(returncode, stdout, stderr) ==
    IF returncode # 0 THEN
        IF IsEmptyBytes(stderr)
        THEN Raise(ExecutionFailedError(returncode, <<"Unknown error">>))
        ELSE IF ~stderr.valid THEN Raise(UnicodeDecodeError)
        ELSE Raise(ExecutionFailedError(returncode, Strip(stderr.text)))
    ELSE IF ~stdout.valid \/ ~stderr.valid THEN Raise(UnicodeDecodeError)
    ELSE Return([stdout |-> stdout.text, stderr |-> stderr.text])

\* ------------------------------------------------------------------------
\* Orchestration: codex_delegate
\* ------------------------------------------------------------------------
\* os.environ.get("CODEX_ALLOW_WRITE", "false")
EnvGet(value) == IF value = "unset" THEN "false" ELSE value

\* str.lower() of an environment value
LowerValue(value) == IF value = "TRUE" THEN "true" ELSE value

\* a slip: the value is compared as it is, not lowercased
AllowWriteExact(value) == EnvGet(value) = "true"

\* allow_write as codex_delegate reads it
AllowWrite(value) == LowerValue(EnvGet(value)) = "true"

\* the advisory attached when write mode was downgraded
ModeNotice ==
    [mode |-> "planning",
     description |-> "Operating in planning and analysis mode (read-only)",
     hint |-> "To apply changes, restart the server with --allow-write flag"]

\* a slip: the requested mode is kept when write is not allowed
WriteModePolicyKeep(sandbox_mode, allow_write) ==
    [effective_sandbox_mode |-> sandbox_mode,
     mode_notice |->
         IF ~allow_write /\ sandbox_mode # "read-only"
         THEN Some(ModeNotice) ELSE None]

\* a slip: the notice is attached whenever write is not allowed
WriteModePolicyAlwaysNotice(sandbox_mode, allow_write) ==
    IF ~allow_write
    THEN [effective_sandbox_mode |-> "read-only",
          mode_notice |-> Some(ModeNotice)]
    ELSE [effective_sandbox_mode |-> sandbox_mode, mode_notice |-> None]

\* step 1: enforce read-only mode if write is not allowed
WriteModePolicy(sandbox_mode, allow_write) ==
    IF ~allow_write /\ sandbox_mode # "read-only"
    THEN [effective_sandbox_mode |-> "read-only",
          mode_notice |-> Some(ModeNotice)]
    ELSE [effective_sandbox_mode |-> sandbox_mode, mode_notice |-> None]

\* dde.prepare_codex_prompt: the task unchanged, or with context prepended
PreparedPrompt(task_description, p) ==
    IF p = "same" THEN task_description
    ELSE <<"c", "t", "x", " ">> \o task_description

\* the resolved wrapper delimiters
ResolveStart(final_output_start_delimiter) ==
    IF ~IsNone(final_output_start_delimiter)
    THEN Val(final_output_start_delimiter) ELSE default_start_delimiter

ResolveEnd(final_output_end_delimiter) ==
    IF ~IsNone(final_output_end_delimiter)
    THEN Val(final_output_end_delimiter) ELSE default_end_delimiter

\* the format-specific instruction, one token per format
FormatInstruction(output_format) ==
    IF output_format = "diff"
    THEN <<"Inside the wrapper, output a unified diff only">>
    ELSE IF output_format = "full_file"
    THEN <<"Inside the wrapper, output only the complete final file content(s)">>
    ELSE <<"Inside the wrapper, output only the explanation as plain text">>

\* the delimiter instruction around the display forms of the delimiters
DelimiterInstruction(display_start, display_end) ==
    <<"Please wrap your final deliverable content between ">>
    \o display_start \o <<" and ">> \o display_end
    \o <<" delimiters. Place any reasoning before the start delimiter. ",
         "Note: In this instruction, ", "'", "[", "'", " and ", "'", "]", "'",
         " are escaped with backslashes; do not include backslashes in the ",
         "actual delimiters in your output.">>

\* the prompt handed to invoke_codex_cli
FullPrompt(output_format, start_delimiter, end_delimiter, codex_prompt) ==
    FormatInstruction(output_format) \o <<"\n", "\n">>
    \o DelimiterInstruction(_escape_delimiter_for_display(start_delimiter),
                            _escape_delimiter_for_display(end_delimiter))
    \o <<"\n", "\n">> \o codex_prompt

\* a slip: the notice attached to every result
WithNoticeAlways(result, mode_notice) ==
    ("operation_mode" :> ModeNotice) @@ result

\* attach the operation_mode notice if there is one
WithNotice(result, mode_notice) ==
    IF ~IsNone(mode_notice)
    THEN ("operation_mode" :> Val(mode_notice)) @@ result
    ELSE result

\* step 2 failed: the invalid-directory result
InvalidDirectoryResult(f) ==
    WithNotice(
        [status |-> "error",
         message |-> [text |-> "Invalid or unsafe working directory",
                      working_directory |-> f.working_directory],
         error_type |-> "invalid_directory",
         working_directory |-> f.working_directory,
         sandbox_mode |-> f.effective_sandbox_mode,
         requested_sandbox_mode |-> f.sandbox_mode],
        f.mode_notice)

\* a slip: the rejection reported as one more error
RejectionAsError ==
    [status |-> "error",
     message |-> "The task is not suitable for delegation to Codex CLI",
     reason |-> "Task not suitable for Codex delegation"]

\* step 3 failed: the rejection result
RejectionResult ==
    [status |-> "rejected",
     message |-> "The task is not suitable for delegation to Codex CLI",
     reason |-> "Task not suitable for Codex delegation"]

\* the except branch of codex_delegate
ExecutionErrorResult(f, e) ==
    WithNotice(
        [status |-> "error",
         message |-> e.message,
         error_type |-> e.type,
         working_directory |-> f.working_directory,
         execution_mode |-> f.execution_mode,
         sandbox_mode |-> f.effective_sandbox_mode,
         requested_sandbox_mode |-> f.sandbox_mode,
         optimization_note |-> ""],
        f.mode_notice)

\* steps 6 and following: parse the output and add the metadata
ParsedResult(f, stdout, stderr) ==
    LET result == parse_codex_output(stdout, f.output_format, None,
                                     Some(f.start_delimiter),
                                     Some(f.end_delimiter), f.strict)
        updated ==
            [working_directory |-> f.working_directory,
             execution_mode |-> f.execution_mode,
             sandbox_mode |-> f.effective_sandbox_mode,
             requested_sandbox_mode |-> f.sandbox_mode,
             optimization_note |-> None,
             original_task |-> f.task_description,
             codex_prompt |->
                 IF f.codex_prompt # f.task_description
                 THEN Some(f.codex_prompt) ELSE None] @@ result
        noticed == WithNotice(updated, f.mode_notice)
    IN  IF Strip(stderr) # << >>
        THEN ("stderr" :> Strip(stderr)) @@ noticed
        ELSE noticed

\* the try block of codex_delegate around what the invoker delivered
DelegateResult(f, io) ==
    IF io.kind = "raise" THEN ExecutionErrorResult(f, io.exc)
    ELSE ParsedResult(f, io.value.stdout, io.value.stderr)


\* ------------------------------------------------------------------------
\* Calls in flight
\* ------------------------------------------------------------------------
\* a call slot with no call in it
NoFrame ==
    [entry |-> "none", task_description |-> << >>,
     working_directory |-> << >>, execution_mode |-> "on-failure",
     sandbox_mode |-> "read-only", output_format |-> "diff",
     task_complexity |-> "medium", strict |-> None, allow_write |-> FALSE,
     effective_sandbox_mode |-> "read-only", mode_notice |-> None,
     codex_prompt |-> << >>, start_delimiter |-> << >>,
     end_delimiter |-> << >>, command |-> << >>, timeout |-> 0,
     answers |-> << >>,
     dde |-> [validate_working_directory |-> "true",
              should_delegate |-> "true",
              prepare_codex_prompt |-> "same"]]

NoProc ==
    [state |-> "none", returncode |-> None, stdout |-> None, stderr |-> None]

\* a slip: a gate that lets everything through
GateNeverFails(answer) == FALSE

\* `if not dde.validate_working_directory(..)`, `if not dde.should_delegate(..)`
GateFails(answer) == answer = "false"

\* a slip: the admission check made before the directory is validated
DelegatePreludeAdmissionFirst(task_description, working_directory, execution_mode, sandbox_mode, output_format, task_complexity, final_output_start_delimiter, final_output_end_delimiter, final_output_strict, env_value, v, a, p) ==
    LET allow_write == AllowWrite(env_value)
        policy == WriteModePolicy(sandbox_mode, allow_write)
        codex_prompt == PreparedPrompt(task_description, p)
        start_delimiter == ResolveStart(final_output_start_delimiter)
        end_delimiter == ResolveEnd(final_output_end_delimiter)
        f == [entry |-> "delegate",
              task_description |-> task_description,
              working_directory |-> working_directory,
              execution_mode |-> execution_mode,
              sandbox_mode |-> sandbox_mode,
              output_format |-> output_format,
              task_complexity |-> task_complexity,
              strict |-> final_output_strict,
              allow_write |-> allow_write,
              effective_sandbox_mode |-> policy.effective_sandbox_mode,
              mode_notice |-> policy.mode_notice,
              codex_prompt |-> << >>,
              start_delimiter |-> << >>,
              end_delimiter |-> << >>,
              command |-> << >>,
              timeout |-> 0,
              answers |-> << >>,
              dde |-> [validate_working_directory |-> v,
                       should_delegate |-> a,
                       prepare_codex_prompt |-> p]]
    IN  IF a = "fault" THEN
            [pc |-> "raised", frame |-> [f EXCEPT !.answers = <<a>>],
             events |-> <<"should_delegate">>,
             outcome |-> Some(Raise([type |-> "Fault",
                                     message |-> "should_delegate"]))]
        ELSE IF GateFails(a) THEN
            [pc |-> "returned", frame |-> [f EXCEPT !.answers = <<a>>],
             events |-> <<"should_delegate">>,
             outcome |-> Some(Return(RejectionResult))]
        ELSE IF v = "fault" THEN
            [pc |-> "raised", frame |-> [f EXCEPT !.answers = <<a, v>>],
             events |-> <<"should_delegate", "validate_working_directory">>,
             outcome |-> Some(Raise([type |-> "Fault",
                                     message |-> "validate_working_directory"]))]
        ELSE IF GateFails(v) THEN
            [pc |-> "returned", frame |-> [f EXCEPT !.answers = <<a, v>>],
             events |-> <<"should_delegate", "validate_working_directory">>,
             outcome |-> Some(Return(InvalidDirectoryResult(f)))]
        ELSE IF p = "fault" THEN
            [pc |-> "raised", frame |-> [f EXCEPT !.answers = <<v, a, p>>],
             events |-> <<"validate_working_directory", "should_delegate",
                          "prepare_codex_prompt">>,
             outcome |-> Some(Raise([type |-> "Fault",
                                     message |-> "prepare_codex_prompt"]))]
        ELSE
            [pc |-> "spawn",
             frame |->
                 [f EXCEPT
                    !.answers = <<v, a, p>>,
                    !.codex_prompt = codex_prompt,
                    !.start_delimiter = start_delimiter,
                    !.end_delimiter = end_delimiter,
                    !.timeout = DefaultTimeout,
                    !.command =
                        BuildCommand(
                            FullPrompt(output_format, start_delimiter,
                                       end_delimiter, codex_prompt),
                            working_directory, execution_mode,
                            policy.effective_sandbox_mode, task_complexity,
                            allow_write)],
             events |-> <<"validate_working_directory", "should_delegate",
                          "prepare_codex_prompt">>,
             outcome |-> None]

\* codex_delegate from its entry to the first await: the write-mode policy,
\* the two gates, the prompt and the command of invoke_codex_cli.
\* v, a, p are what the three collaborator calls do (kept as dde in the
\* frame); the answers of the calls that were made are kept as answers.
DelegatePrelude(task_description, working_directory, execution_mode, sandbox_mode, output_format, task_complexity, final_output_start_delimiter, final_output_end_delimiter, final_output_strict, env_value, v, a, p) ==
    LET allow_write == AllowWrite(env_value)
        policy == WriteModePolicy(sandbox_mode, allow_write)
        codex_prompt == PreparedPrompt(task_description, p)
        start_delimiter == ResolveStart(final_output_start_delimiter)
        end_delimiter == ResolveEnd(final_output_end_delimiter)
        f == [entry |-> "delegate",
              task_description |-> task_description,
              working_directory |-> working_directory,
              execution_mode |-> execution_mode,
              sandbox_mode |-> sandbox_mode,
              output_format |-> output_format,
              task_complexity |-> task_complexity,
              strict |-> final_output_strict,
              allow_write |-> allow_write,
              effective_sandbox_mode |-> policy.effective_sandbox_mode,
              mode_notice |-> policy.mode_notice,
              codex_prompt |-> << >>,
              start_delimiter |-> << >>,
              end_delimiter |-> << >>,
              command |-> << >>,
              timeout |-> 0,
              answers |-> << >>,
              dde |-> [validate_working_directory |-> v,
                       should_delegate |-> a,
                       prepare_codex_prompt |-> p]]
    IN  IF v = "fault" THEN
            [pc |-> "raised", frame |-> [f EXCEPT !.answers = <<v>>],
             events |-> <<"validate_working_directory">>,
             outcome |-> Some(Raise([type |-> "Fault",
                                     message |-> "validate_working_directory"]))]
        ELSE IF GateFails(v) THEN
            [pc |-> "returned", frame |-> [f EXCEPT !.answers = <<v>>],
             events |-> <<"validate_working_directory">>,
             outcome |-> Some(Return(InvalidDirectoryResult(f)))]
        ELSE IF a = "fault" THEN
            [pc |-> "raised", frame |-> [f EXCEPT !.answers = <<v, a>>],
             events |-> <<"validate_working_directory", "should_delegate">>,
             outcome |-> Some(Raise([type |-> "Fault",
                                     message |-> "should_delegate"]))]
        ELSE IF GateFails(a) THEN
            [pc |-> "returned", frame |-> [f EXCEPT !.answers = <<v, a>>],
             events |-> <<"validate_working_directory", "should_delegate">>,
             outcome |-> Some(Return(RejectionResult))]
        ELSE IF p = "fault" THEN
            [pc |-> "raised", frame |-> [f EXCEPT !.answers = <<v, a, p>>],
             events |-> <<"validate_working_directory", "should_delegate",
                          "prepare_codex_prompt">>,
             outcome |-> Some(Raise([type |-> "Fault",
                                     message |-> "prepare_codex_prompt"]))]
        ELSE
            [pc |-> "spawn",
             frame |->
                 [f EXCEPT
                    !.answers = <<v, a, p>>,
                    !.codex_prompt = codex_prompt,
                    !.start_delimiter = start_delimiter,
                    !.end_delimiter = end_delimiter,
                    !.timeout = DefaultTimeout,
                    !.command =
                        BuildCommand(
                            FullPrompt(output_format, start_delimiter,
                                       end_delimiter, codex_prompt),
                            working_directory, execution_mode,
                            policy.effective_sandbox_mode, task_complexity,
                            allow_write)],
             events |-> <<"validate_working_directory", "should_delegate",
                          "prepare_codex_prompt">>,
             outcome |-> None]

\* a caller invokes the codex_delegate tool
DelegateCall(c) ==
    /\ pc[c] = "idle"
    /\ \E task_description \in Tasks, working_directory \in WorkingDirs,
          execution_mode \in ExecutionModes, sandbox_mode \in SandboxModes,
          output_format \in OutputFormats, task_complexity \in Complexities,
          sa \in StartArgs, ea \in EndArgs, st \in StrictArgs,
          v \in Answers, a \in Answers, p \in Preparations :
        LET step == DelegatePrelude(task_description, working_directory,
                                    execution_mode, sandbox_mode,
                                    output_format, task_complexity,
                                    sa, ea, st, environ, v, a, p)
        IN  /\ pc' = [pc EXCEPT ![c] = step.pc]
            /\ frame' = [frame EXCEPT ![c] = step.frame]
            /\ events' = [events EXCEPT ![c] = step.events]
            /\ outcome' = [outcome EXCEPT ![c] = step.outcome]
    /\ UNCHANGED <<parse_args, escape_arg, escape_result, start_allow_write,
                 parse_result, environ, proc>>

\* invoke_codex_cli called on its own, up to the first await
InvokeCall(c) ==
    /\ pc[c] = "idle"
    /\ \E prompt \in Tasks, working_directory \in WorkingDirs,
          execution_mode \in ExecutionModes, sandbox_mode \in SandboxModes,
          task_complexity \in Complexities, allow_write \in BOOLEAN :
        /\ frame' = [frame EXCEPT ![c] =
               [NoFrame EXCEPT
                  !.entry = "invoke",
                  !.task_description = prompt,
                  !.working_directory = working_directory,
                  !.execution_mode = execution_mode,
                  !.sandbox_mode = sandbox_mode,
                  !.effective_sandbox_mode = sandbox_mode,
                  !.task_complexity = task_complexity,
                  !.allow_write = allow_write,
                  !.timeout = DefaultTimeout,
                  !.command =
                      BuildCommand(prompt, working_directory, execution_mode,
                                   sandbox_mode, task_complexity,
                                   allow_write)]]
    /\ pc' = [pc EXCEPT ![c] = "spawn"]
    /\ UNCHANGED <<parse_args, escape_arg, escape_result, start_allow_write,
                 parse_result, environ, proc, events, outcome>>

\* invoke_codex_cli ends with io; the awaiting codex_delegate goes on with it
Deliver(c, io) ==
    /\ pc' = [pc EXCEPT ![c] =
           IF frame[c].entry = "invoke" /\ io.kind = "raise"
           THEN "raised" ELSE "returned"]
    /\ outcome' = [outcome EXCEPT ![c] =
           Some(IF frame[c].entry = "invoke" THEN io
                ELSE Return(DelegateResult(frame[c], io)))]

\* create_subprocess_exec started the agent
SpawnStarted(c) ==
    /\ pc[c] = "spawn"
    /\ proc' = [proc EXCEPT ![c] = [NoProc EXCEPT !.state = "running"]]
    /\ events' = [events EXCEPT ![c] = Append(@, "create_subprocess_exec")]
    /\ pc' = [pc EXCEPT ![c] = "communicate"]
    /\ UNCHANGED <<parse_args, escape_arg, escape_result, start_allow_write,
                 parse_result, environ, frame, outcome>>

\* a slip: a launch that failed is tried a second time
SpawnNotFoundRetries(c) ==
    /\ pc[c] = "spawn"
    /\ events' = [events EXCEPT ![c] = Append(@, "create_subprocess_exec")]
    /\ IF "create_subprocess_exec" \in Range(events[c])
       THEN Deliver(c, Raise(NotFoundError))
       ELSE UNCHANGED <<pc, outcome>>
    /\ UNCHANGED <<parse_args, escape_arg, escape_result, start_allow_write,
                 parse_result, environ, frame, proc>>

\* create_subprocess_exec raised FileNotFoundError
SpawnNotFound(c) ==
    /\ pc[c] = "spawn"
    /\ events' = [events EXCEPT ![c] = Append(@, "create_subprocess_exec")]
    /\ Deliver(c, Raise(NotFoundError))
    /\ UNCHANGED <<parse_args, escape_arg, escape_result, start_allow_write,
                 parse_result, environ, frame, proc>>

\* the agent exited and communicate() returned within the bound
CommunicateDone(c) ==
    /\ pc[c] = "communicate"
    /\ \E returncode \in ExitCodes, stdout \in StdoutStreams,
          stderr \in StderrStreams :
        /\ proc' = [proc EXCEPT ![c] =
               [state |-> "reaped", returncode |-> Some(returncode),
                stdout |-> Some(stdout), stderr |-> Some(stderr)]]
        /\ Deliver(c, AfterCommunicate(returncode, stdout, stderr))
    /\ UNCHANGED <<parse_args, escape_arg, escape_result, start_allow_write,
                 parse_result, environ, frame, events>>

\* a slip: one process handle shared by all calls, so that the timeout of
\* one call terminates every agent that is running
WaitTimeoutTerminatesAll(c) ==
    /\ pc[c] = "communicate"
    /\ events' = [d \in DOMAIN events |->
                      IF proc[d].state = "running"
                      THEN Append(events[d], "terminate") ELSE events[d]]
    /\ pc' = [pc EXCEPT ![c] = "grace"]
    /\ UNCHANGED <<parse_args, escape_arg, escape_result, start_allow_write,
                 parse_result, environ, frame, proc, outcome>>

\* a slip: the timed-out agent is killed at once, with no terminate first
WaitTimeoutKills(c) ==
    /\ pc[c] = "communicate"
    /\ events' = [events EXCEPT ![c] = Append(@, "kill")]
    /\ pc' = [pc EXCEPT ![c] = "grace"]
    /\ UNCHANGED <<parse_args, escape_arg, escape_result, start_allow_write,
                 parse_result, environ, frame, proc, outcome>>

\* the bound elapsed first: terminate, then wait up to GraceSeconds
WaitTimeout(c) ==
    /\ pc[c] = "communicate"
    /\ events' = [events EXCEPT ![c] = Append(@, "terminate")]
    /\ pc' = [pc EXCEPT ![c] = "grace"]
    /\ UNCHANGED <<parse_args, escape_arg, escape_result, start_allow_write,
                 parse_result, environ, frame, proc, outcome>>

\* the agent exited within the grace wait
GraceExit(c) ==
    /\ pc[c] = "grace"
    /\ \E returncode \in ExitCodes :
        proc' = [proc EXCEPT ![c] =
            [NoProc EXCEPT !.state = "reaped",
                           !.returncode = Some(returncode)]]
    /\ Deliver(c, Raise(TimeoutError(frame[c].timeout)))
    /\ UNCHANGED <<parse_args, escape_arg, escape_result, start_allow_write,
                 parse_result, environ, frame, events>>

\* a slip: after the kill the outcome is delivered without waiting for the
\* agent to exit
GraceTimeoutNoWait(c) ==
    /\ pc[c] = "grace"
    /\ events' = [events EXCEPT ![c] = Append(@, "kill")]
    /\ Deliver(c, Raise(TimeoutError(frame[c].timeout)))
    /\ UNCHANGED <<parse_args, escape_arg, escape_result, start_allow_write,
                 parse_result, environ, frame, proc>>

\* the grace wait elapsed: kill, then wait without a bound
GraceTimeout(c) ==
    /\ pc[c] = "grace"
    /\ events' = [events EXCEPT ![c] = Append(@, "kill")]
    /\ pc' = [pc EXCEPT ![c] = "reap"]
    /\ UNCHANGED <<parse_args, escape_arg, escape_result, start_allow_write,
                 parse_result, environ, frame, proc, outcome>>

\* the killed agent exited and was reaped
Reap(c) ==
    /\ pc[c] = "reap"
    /\ \E returncode \in ExitCodes :
        proc' = [proc EXCEPT ![c] =
            [NoProc EXCEPT !.state = "reaped",
                           !.returncode = Some(returncode)]]
    /\ Deliver(c, Raise(TimeoutError(frame[c].timeout)))
    /\ UNCHANGED <<parse_args, escape_arg, escape_result, start_allow_write,
                 parse_result, environ, frame, events>>

\* the caller took the outcome; the slot is free for the next call
Finish(c) ==
    /\ pc[c] \in {"returned", "raised"}
    /\ pc' = [pc EXCEPT ![c] = "idle"]
    /\ frame' = [frame EXCEPT ![c] = NoFrame]
    /\ proc' = [proc EXCEPT ![c] = NoProc]
    /\ events' = [events EXCEPT ![c] = << >>]
    /\ outcome' = [outcome EXCEPT ![c] = None]
    /\ UNCHANGED <<parse_args, escape_arg, escape_result, start_allow_write,
                 parse_result, environ>>

\* the environment variable CODEX_ALLOW_WRITE is set or unset
EnvChange ==
    /\ \E value \in EnvValues \ {environ} : environ' = value
    /\ UNCHANGED <<parse_args, escape_arg, escape_result, start_allow_write,
                 parse_result, pc, frame, proc, events, outcome>>

\* ------------------------------------------------------------------------
\* Specification of the server: delegation calls and invoker calls
\* ------------------------------------------------------------------------
NoParseArgs ==
    [stdout |-> << >>, delimiter |-> None, start_delimiter |-> None,
     end_delimiter |-> None, strict |-> None]

Init ==
    /\ parse_args = NoParseArgs
    /\ parse_result = None
    /\ escape_arg = << >>
    /\ escape_result = None
    /\ environ \in EnvValues
    /\ start_allow_write = AllowWrite(environ)
    /\ pc = [c \in Calls |-> "idle"]
    /\ frame = [c \in Calls |-> NoFrame]
    /\ proc = [c \in Calls |-> NoProc]
    /\ events = [c \in Calls |-> << >>]
    /\ outcome = [c \in Calls |-> None]

Next ==
    \/ \E c \in Calls : DelegateCall(c)
    \/ \E c \in Calls : InvokeCall(c)
    \/ \E c \in Calls : SpawnStarted(c)
    \/ \E c \in Calls : SpawnNotFound(c)
    \/ \E c \in Calls : CommunicateDone(c)
    \/ \E c \in Calls : WaitTimeout(c)
    \/ \E c \in Calls : GraceExit(c)
    \/ \E c \in Calls : GraceTimeout(c)
    \/ \E c \in Calls : Reap(c)
    \/ \E c \in Calls : Finish(c)
    \/ EnvChange

Spec == Init /\ [][Next]_vars

\* ------------------------------------------------------------------------
\* Specification of the resolver: parse_codex_output on bounded inputs
\* ------------------------------------------------------------------------
Alphabet == {"a", "b", " "}
DelimAlphabet == {"a", "b"}

\* sample outputs that carry the default delimiters
SampleTexts ==
    { <<"a", " ">> \o default_start_delimiter \o <<" ", "b", " ">>
          \o default_end_delimiter \o <<"a">> \o default_end_delimiter,
      <<"a">> \o FINAL_OUTPUT_DELIMITER \o <<" ", "b", " ">>,
      <<" ">> \o default_end_delimiter \o default_start_delimiter }

Texts == SeqsUpTo(Alphabet, MaxLen) \cup SampleTexts
WrapperArgs ==
    {None} \cup { Some(d) : d \in SeqsUpTo(DelimAlphabet, MaxDelimLen) }
SingleArgs == { None, Some(<<"b">>), Some(<< >>) }

ParseInit ==
    /\ parse_args \in [stdout : Texts, delimiter : SingleArgs,
                       start_delimiter : WrapperArgs,
                       end_delimiter : WrapperArgs, strict : StrictArgs]
    /\ parse_result = None
    /\ escape_arg = << >>
    /\ escape_result = None
    /\ environ = "unset"
    /\ start_allow_write = AllowWrite(environ)
    /\ pc = [c \in Calls |-> "idle"]
    /\ frame = [c \in Calls |-> NoFrame]
    /\ proc = [c \in Calls |-> NoProc]
    /\ events = [c \in Calls |-> << >>]
    /\ outcome = [c \in Calls |-> None]

\* parse_codex_output is called on the arguments
ParseCall ==
    /\ parse_result = None
    /\ parse_result' =
           Some(parse_codex_output(parse_args.stdout, "diff",
                                   parse_args.delimiter,
                                   parse_args.start_delimiter,
                                   parse_args.end_delimiter,
                                   parse_args.strict))
    /\ UNCHANGED <<parse_args, escape_arg, escape_result, start_allow_write,
                 environ, pc, frame, proc, events, outcome>>

ParseNext == ParseCall

SpecParse == ParseInit /\ [][ParseNext]_vars


\* ------------------------------------------------------------------------
\* Specification of the type detection: parse_codex_output on texts made
\* of the markers the detection looks for
\* ------------------------------------------------------------------------
DetectFragments ==
    { DiffOldMarker, DiffNewMarker, Fence,
      <<"d", "e", "f", " ">>, <<"C", "l", "a", "s", "s", " ">>, <<"x">> }

\* all texts made of at most n fragments
RECURSIVE FragTexts(_)
FragTexts(n) ==
    IF n = 0 THEN { << >> }
    ELSE LET shorter == FragTexts(n - 1)
         IN  shorter \cup { s \o x : s \in shorter, x \in DetectFragments }

DetectTexts == FragTexts(MaxFrags)
DetectWrapperArgs == { None, Some(<<"x">>) }

DetectInit ==
    /\ parse_args \in [stdout : DetectTexts, delimiter : {None},
                       start_delimiter : DetectWrapperArgs,
                       end_delimiter : DetectWrapperArgs,
                       strict : {None, Some(TRUE)}]
    /\ parse_result = None
    /\ escape_arg = << >>
    /\ escape_result = None
    /\ environ = "unset"
    /\ start_allow_write = AllowWrite(environ)
    /\ pc = [c \in Calls |-> "idle"]
    /\ frame = [c \in Calls |-> NoFrame]
    /\ proc = [c \in Calls |-> NoProc]
    /\ events = [c \in Calls |-> << >>]
    /\ outcome = [c \in Calls |-> None]

DetectNext == ParseCall

SpecDetect == DetectInit /\ [][DetectNext]_vars


\* ------------------------------------------------------------------------
\* Specification of the display escaping: _escape_delimiter_for_display on
\* enumerated delimiters
\* ------------------------------------------------------------------------
EscapeAlphabet == {"[", "]", "\\", "="}
EscapeArgs == SeqsUpTo(EscapeAlphabet, MaxEscLen)

EscapeInit ==
    /\ escape_arg \in EscapeArgs
    /\ escape_result = None
    /\ parse_args = NoParseArgs
    /\ parse_result = None
    /\ environ = "unset"
    /\ start_allow_write = AllowWrite(environ)
    /\ pc = [c \in Calls |-> "idle"]
    /\ frame = [c \in Calls |-> NoFrame]
    /\ proc = [c \in Calls |-> NoProc]
    /\ events = [c \in Calls |-> << >>]
    /\ outcome = [c \in Calls |-> None]

EscapeCall ==
    /\ escape_result = None
    /\ escape_result' = Some(_escape_delimiter_for_display(escape_arg))
    /\ UNCHANGED <<parse_args, parse_result, escape_arg, start_allow_write,
                 environ, pc, frame, proc, events, outcome>>

EscapeNext == EscapeCall

SpecEscape == EscapeInit /\ [][EscapeNext]_vars


\* ------------------------------------------------------------------------
\* Specification of the echo: the agent answers with the delimiter
\* instruction it was given, and parse_codex_output resolves that answer
\* with the delimiters of the call
\* ------------------------------------------------------------------------
EchoAlphabet == {"[", "]", "\\", "-"}
EchoDelimiters == SeqsUpTo(EchoAlphabet, MaxDelimLen) \ { << >> }

EchoInit ==
    /\ parse_args \in [stdout : { << >> }, delimiter : {None},
                       start_delimiter : { Some(d) : d \in EchoDelimiters },
                       end_delimiter : { Some(d) : d \in EchoDelimiters },
                       strict : {None, Some(TRUE)}]
    /\ parse_result = None
    /\ escape_arg = << >>
    /\ escape_result = None
    /\ environ = "unset"
    /\ start_allow_write = AllowWrite(environ)
    /\ pc = [c \in Calls |-> "idle"]
    /\ frame = [c \in Calls |-> NoFrame]
    /\ proc = [c \in Calls |-> NoProc]
    /\ events = [c \in Calls |-> << >>]
    /\ outcome = [c \in Calls |-> None]

\* the instruction is built, the agent writes it back, the output is parsed
EchoCall ==
    /\ parse_result = None
    /\ LET start_delimiter == Val(parse_args.start_delimiter)
           end_delimiter == Val(parse_args.end_delimiter)
           delimiter_instruction ==
               DelimiterInstruction(
                   _escape_delimiter_for_display(start_delimiter),
                   _escape_delimiter_for_display(end_delimiter))
       IN  /\ parse_args' = [parse_args EXCEPT !.stdout = delimiter_instruction]
           /\ parse_result' =
                  Some(parse_codex_output(delimiter_instruction, "diff", None,
                                          Some(start_delimiter),
                                          Some(end_delimiter),
                                          parse_args.strict))
    /\ UNCHANGED <<escape_arg, escape_result, start_allow_write, environ,
                 pc, frame, proc, events, outcome>>

EchoNext == EchoCall

SpecEcho == EchoInit /\ [][EchoNext]_vars


\* ------------------------------------------------------------------------
\* Specification of the invoker with its scheduling: direct calls of
\* invoke_codex_cli. create_subprocess_exec returns or raises; each
\* wait_for ends by completion or by its timer; the wait after kill ends
\* when the killed agent exits.
\* ------------------------------------------------------------------------
InvokerNext ==
    \/ \E c \in Calls : InvokeCall(c)
    \/ \E c \in Calls : SpawnStarted(c)
    \/ \E c \in Calls : SpawnNotFound(c)
    \/ \E c \in Calls : CommunicateDone(c)
    \/ \E c \in Calls : WaitTimeout(c)
    \/ \E c \in Calls : GraceExit(c)
    \/ \E c \in Calls : GraceTimeout(c)
    \/ \E c \in Calls : Reap(c)
    \/ \E c \in Calls : Finish(c)

InvokerFairness ==
    \A c \in Calls :
        /\ WF_vars(SpawnStarted(c) \/ SpawnNotFound(c))
        /\ WF_vars(CommunicateDone(c) \/ WaitTimeout(c))
        /\ WF_vars(GraceExit(c) \/ GraceTimeout(c))
        /\ WF_vars(Reap(c))

SpecInvoker == Init /\ [][InvokerNext]_vars /\ InvokerFairness


\* ------------------------------------------------------------------------
\* Specification of two delegation calls running concurrently
\* ------------------------------------------------------------------------
ConcCalls == {"c1", "c2"}
ConcSandboxModes == {"read-only", "workspace-write"}
ConcStrictArgs == { None, Some(TRUE) }

ConcInit ==
    /\ parse_args = NoParseArgs
    /\ parse_result = None
    /\ escape_arg = << >>
    /\ escape_result = None
    /\ environ \in {"unset", "true"}
    /\ start_allow_write = AllowWrite(environ)
    /\ pc = [c \in ConcCalls |-> "idle"]
    /\ frame = [c \in ConcCalls |-> NoFrame]
    /\ proc = [c \in ConcCalls |-> NoProc]
    /\ events = [c \in ConcCalls |-> << >>]
    /\ outcome = [c \in ConcCalls |-> None]

\* a caller invokes the codex_delegate tool while another call may be running;
\* both gates let the call pass
ConcDelegateCall(c) ==
    /\ pc[c] = "idle"
    /\ \E sandbox_mode \in ConcSandboxModes, st \in ConcStrictArgs :
        LET step == DelegatePrelude(<<"f", "i", "x">>, <<"/", "w">>,
                                    "on-failure", sandbox_mode, "diff",
                                    "medium", None, None, st, environ,
                                    "true", "true", "same")
        IN  /\ pc' = [pc EXCEPT ![c] = step.pc]
            /\ frame' = [frame EXCEPT ![c] = step.frame]
            /\ events' = [events EXCEPT ![c] = step.events]
            /\ outcome' = [outcome EXCEPT ![c] = step.outcome]
    /\ UNCHANGED <<parse_args, escape_arg, escape_result, start_allow_write,
                 parse_result, environ, proc>>

ConcNext ==
    \/ \E c \in ConcCalls : ConcDelegateCall(c)
    \/ \E c \in ConcCalls : SpawnStarted(c)
    \/ \E c \in ConcCalls : SpawnNotFound(c)
    \/ \E c \in ConcCalls : CommunicateDone(c)
    \/ \E c \in ConcCalls : WaitTimeout(c)
    \/ \E c \in ConcCalls : GraceExit(c)
    \/ \E c \in ConcCalls : GraceTimeout(c)
    \/ \E c \in ConcCalls : Reap(c)
    \/ \E c \in ConcCalls : Finish(c)

SpecConc == ConcInit /\ [][ConcNext]_vars

\* ------------------------------------------------------------------------
\* Properties
\* ------------------------------------------------------------------------
Parsed == ~IsNone(parse_result)
ParseDict == Val(parse_result)

\* the call in slot c has ended and this is what it returned or raised
Ended(c) == ~IsNone(outcome[c])
Outcome(c) == Val(outcome[c])
IsDelegate(c) == frame[c].entry = "delegate"
\* the delegation call in slot c returned a structured result
Returned(c) == IsDelegate(c) /\ Ended(c) /\ Outcome(c).kind = "return"
ResultOf(c) == Outcome(c).value

\* the flags of a command: everything before the final prompt argument
FlagsOf(command) == SubSeq(command, 1, Len(command) - 1)
\* the invoker built the command of the call in slot c
Built(c) == frame[c].command # << >>

\* positions of the end delimiter that lie wholly after the first start
EndsAfterStart(text, start, end) ==
    { q \in Occurrences(text, end) : q >= Find(text, start) + Len(start) }

\* a wrapper pair was given and matches: start present, an end after it
WrapperMatches ==
    /\ ~IsNone(parse_args.start_delimiter)
    /\ ~IsNone(parse_args.end_delimiter)
    /\ Find(parse_args.stdout, Val(parse_args.start_delimiter)) # -1
    /\ EndsAfterStart(parse_args.stdout, Val(parse_args.start_delimiter),
                      Val(parse_args.end_delimiter)) # {}

\* C1: when the start delimiter first occurs at p and the end delimiter
\* occurs at or after p+len(start), the resolver returns success and the
\* content is text[p+len(start) : last occurrence of end], trimmed.
C1_GreedyWrapper ==
    (Parsed /\ WrapperMatches) =>
        LET text == parse_args.stdout
            start == Val(parse_args.start_delimiter)
            end == Val(parse_args.end_delimiter)
            from == Find(text, start) + Len(start)
            last == SetMax(Occurrences(text, end))
        IN  /\ ParseDict.status = "success"
            /\ ParseDict.content = Strip(Slice(text, from, last))

\* C1 witness: two end delimiters after the start, and whitespace to trim
C1_Witness ==
    /\ Parsed
    /\ WrapperMatches
    /\ Cardinality(EndsAfterStart(parse_args.stdout,
                                  Val(parse_args.start_delimiter),
                                  Val(parse_args.end_delimiter))) >= 2
    /\ Val(parse_args.start_delimiter) # << >>
    /\ Val(parse_args.end_delimiter) # << >>
    /\ ParseDict.content # << >>
    /\ parse_args.stdout[Find(parse_args.stdout,
                              Val(parse_args.start_delimiter))
                         + Len(Val(parse_args.start_delimiter)) + 1]
           \in Whitespace

\* strict mode is on and none of the configured delimiters was found
StrictAndMissing ==
    /\ parse_args.strict = Some(TRUE)
    /\ ~ResolveDelimiters(parse_args.stdout, parse_args.delimiter,
                          parse_args.start_delimiter,
                          parse_args.end_delimiter).has_delimiter

\* C2 as stated: with strict=true and no delimiter found the result is the
\* error final_output_delimiter_missing and content is the original text
\* untrimmed.
C2_UntrimmedContent ==
    (Parsed /\ StrictAndMissing) =>
        /\ ParseDict.status = "error"
        /\ ParseDict.error_type = "final_output_delimiter_missing"
        /\ ParseDict.content = parse_args.stdout

\* C3: a command built by invoke_codex_cli with allow_write false has no
\* write-capable sandbox flag: neither --full-auto nor -s workspace-write
\* nor -s danger-full-access.
C3_NoWriteFlagWithoutAllowWrite ==
    \A c \in Calls :
        (Built(c) /\ ~frame[c].allow_write) =>
            LET flags == FlagsOf(frame[c].command)
            IN  /\ <<"--full-auto">> \notin Range(flags)
                /\ ~HasPair(flags, <<"-s">>, <<"workspace-write">>)
                /\ ~HasPair(flags, <<"-s">>, <<"danger-full-access">>)

\* C4: a delegation call made with the write-allowance flag off that reaches
\* the invocation step passes sandbox_permissions=[] and -s read-only, never
\* --full-auto, and its response reports sandbox_mode read-only.
C4_ReadOnlyDelegation ==
    \A c \in Calls :
        (IsDelegate(c) /\ ~frame[c].allow_write /\ Built(c)) =>
            LET flags == FlagsOf(frame[c].command)
            IN  /\ HasPair(flags, <<"-c">>, <<"sandbox_permissions=[]">>)
                /\ HasPair(flags, <<"-s">>, <<"read-only">>)
                /\ <<"--full-auto">> \notin Range(flags)
                /\ Ended(c) =>
                       /\ Outcome(c).kind = "return"
                       /\ ResultOf(c).sandbox_mode = "read-only"

\* C4 witness: write mode was requested with on-failure, the flag was off,
\* and the call went through the invocation to a response
C4_Witness ==
    \E c \in Calls :
        /\ Returned(c)
        /\ Built(c)
        /\ ~frame[c].allow_write
        /\ frame[c].sandbox_mode = "workspace-write"
        /\ frame[c].execution_mode = "on-failure"
        /\ ResultOf(c).status = "success"


\* the response of the call in slot c carries the run metadata
HasRunMetadata(c) == Returned(c) /\ "sandbox_mode" \in DOMAIN ResultOf(c)

LaunchFailed(c) ==
    /\ Ended(c)
    /\ proc[c].state = "none"
    /\ Len(events[c]) > 0
    /\ events[c][Len(events[c])] = "create_subprocess_exec"

\* the error kind a delegation call reports for exception e
ErrorKind(e) == ExecutionErrorResult(NoFrame, e).error_type

\* C6: timeout, nonzero exit and executable-not-found reach the caller of
\* the delegation call with pairwise different error_type values; a launch
\* failure is never reported with the kind of a nonzero exit.
C6_DistinctErrorKinds ==
    \A c \in Calls :
        (Returned(c) /\ LaunchFailed(c)) =>
            /\ ResultOf(c).status = "error"
            /\ \A returncode \in ExitCodes \ {0} :
                   ResultOf(c).error_type #
                       ErrorKind(ExecutionFailedError(returncode, << >>))
            /\ ResultOf(c).error_type # ErrorKind(TimeoutError(DefaultTimeout))
            /\ \A returncode \in ExitCodes \ {0} :
                   ErrorKind(ExecutionFailedError(returncode, << >>)) #
                       ErrorKind(TimeoutError(DefaultTimeout))

\* the kind of error the ended call in slot c surfaced, "" if none
SurfacedKind(o) ==
    IF o.kind = "raise" THEN o.exc.type
    ELSE IF "error_type" \in DOMAIN o.value THEN o.value.error_type
    ELSE ""

\* C7: once the bounded wait has elapsed, the call ends with the timeout
\* kind and never with the generic failure kind, whether the agent exits in
\* the grace wait or is killed, and whatever exit code it yields.
C7_TimeoutKind ==
    [][\A c \in Calls :
          (pc[c] \in {"grace", "reap"} /\ ~IsNone(outcome'[c])) =>
              /\ SurfacedKind(Val(outcome'[c])) = "TimeoutError"
              /\ frame[c].entry = "delegate" =>
                     /\ Val(outcome'[c]).kind = "return"
                     /\ Val(outcome'[c]).value.status = "error"]_vars

\* C7 witness: a delegation call timed out and the agent then exited by
\* itself with a failure code during the grace wait
C7_Witness ==
    \E c \in Calls :
        /\ Returned(c)
        /\ "terminate" \in Range(events[c])
        /\ "kill" \notin Range(events[c])
        /\ proc[c].returncode = Some(1)
        /\ ResultOf(c).error_type = "TimeoutError"

\* the positions of event e in the event sequence of the call in slot c
EventAt(c, e) == { i \in 1..Len(events[c]) : events[c][i] = e }

\* what holds of the shutdown signals in every state
ShutdownOrder(c) ==
    /\ Cardinality(EventAt(c, "terminate")) <= 1
    /\ Cardinality(EventAt(c, "kill")) <= 1
    /\ \A k \in EventAt(c, "kill") :
           \E t \in EventAt(c, "terminate") : t < k
    /\ \A t \in EventAt(c, "terminate") :
           \E s \in EventAt(c, "create_subprocess_exec") : s < t
    /\ pc[c] \in {"grace", "reap"} =>
           /\ proc[c].state = "running"
           /\ EventAt(c, "terminate") # {}
    /\ pc[c] = "reap" <=> (EventAt(c, "kill") # {} /\ ~Ended(c))
    /\ (Ended(c) /\ SurfacedKind(Outcome(c)) = "TimeoutError") =>
           /\ proc[c].state = "reaped"
           /\ EventAt(c, "terminate") # {}
    /\ (Ended(c) /\ SurfacedKind(Outcome(c)) # "TimeoutError") =>
           /\ EventAt(c, "terminate") = {}
           /\ EventAt(c, "kill") = {}

\* what holds of every step: no kill when the agent exits in the grace
\* wait, and a kill only out of a grace wait that elapsed
ShutdownStep(c) ==
    /\ (pc[c] = "grace" /\ proc'[c].state = "reaped") =>
           events'[c] = events[c]
    /\ (EventAt(c, "kill") = {} /\ "kill" \in Range(events'[c])) =>
           /\ pc[c] = "grace"
           /\ proc'[c].state = "running"
           /\ events'[c] = Append(events[c], "kill")

\* C8: on timeout terminate is sent first; kill is sent only after it and
\* only when the agent has not exited within the grace wait; the timeout
\* error is raised only once the agent was seen to exit; neither signal is
\* sent on the success, nonzero-exit and not-found paths.
C8_TwoPhaseShutdown ==
    /\ [](\A c \in Calls : ShutdownOrder(c))
    /\ [][\A c \in Calls : ShutdownStep(c)]_vars

\* C8 witness: a timed-out call that needed the kill has ended
C8_Witness ==
    \E c \in Calls :
        /\ Ended(c)
        /\ events[c] = <<"create_subprocess_exec", "terminate", "kill">>
        /\ proc[c].state = "reaped"
        /\ Outcome(c).kind = "raise"
        /\ Outcome(c).exc.type = "TimeoutError"

\* C9: a delegation call never raises: whatever the validator, the
\* admission check, the prompt preparation, the launch, the wait, the
\* decoding and the resolver do, it returns a result with a status field.
C9_NoFaultPropagates ==
    \A c \in Calls :
        (IsDelegate(c) /\ Ended(c)) =>
            /\ Outcome(c).kind = "return"
            /\ "status" \in DOMAIN ResultOf(c)

\* C10: every result of a delegation call that is not a success carries
\* the working directory and the original task description of its request.
C10_RequestContextEmbedded ==
    \A c \in Calls :
        (Returned(c) /\ ResultOf(c).status # "success") =>
            /\ "working_directory" \in DOMAIN ResultOf(c)
            /\ ResultOf(c).working_directory = frame[c].working_directory
            /\ "original_task" \in DOMAIN ResultOf(c)
            /\ ResultOf(c).original_task = frame[c].task_description

\* the call in slot c has reached the launch of the agent, or is past it
Launching(c) ==
    \/ pc[c] \in {"spawn", "communicate", "grace", "reap"}
    \/ proc[c].state # "none"
    \/ EventAt(c, "create_subprocess_exec") # {}

\* a gate of the call in slot c did not let it pass (it said no, or raised)
GateClosed(c) ==
    \/ Len(frame[c].answers) >= 1 /\ frame[c].answers[1] # "true"
    \/ Len(frame[c].answers) >= 2 /\ frame[c].answers[2] # "true"

\* C11: in a delegation call whose working directory fails validation or
\* whose task the admission check rejects no agent subprocess is started;
\* a subprocess is started only after the validation succeeded and the
\* admission accepted, in that order, in the same call.
C11_HardGates ==
    \A c \in Calls :
        IsDelegate(c) =>
            /\ GateClosed(c) => ~Launching(c)
            /\ Launching(c) =>
                   /\ Len(frame[c].answers) >= 2
                   /\ frame[c].answers[1] = "true"
                   /\ frame[c].answers[2] = "true"
                   /\ Len(events[c]) >= 2
                   /\ events[c][1] = "validate_working_directory"
                   /\ events[c][2] = "should_delegate"
                   /\ \A s \in EventAt(c, "create_subprocess_exec") : s > 2

\* C11 witness: a call with a valid directory was rejected by the admission
\* check and ended with no subprocess
C11_Witness ==
    \E c \in Calls :
        /\ Returned(c)
        /\ frame[c].answers = <<"true", "false">>
        /\ ResultOf(c).status = "rejected"
        /\ proc[c].state = "none"

SingleLaunch(c) ==
    /\ Cardinality(EventAt(c, "create_subprocess_exec")) <= 1
    /\ Ended(c) <=> pc[c] \in {"returned", "raised"}
    /\ Ended(c) => proc[c].state \in {"none", "reaped"}

\* what holds of every step of a call that has ended: nothing more happens
\* in it until the caller takes the outcome
ReportedOnce(c) ==
    Ended(c) =>
        \/ /\ outcome'[c] = outcome[c]
           /\ events'[c] = events[c]
           /\ proc'[c] = proc[c]
           /\ pc'[c] = pc[c]
        \/ /\ pc'[c] = "idle"
           /\ IsNone(outcome'[c])
           /\ proc'[c].state = "none"

\* C13: in one call the agent subprocess is started at most once; after a
\* nonzero exit, a timeout or a launch failure the call reports the failure
\* once and starts no second subprocess.
C13_NoRetry ==
    /\ [](\A c \in Calls : SingleLaunch(c))
    /\ [][\A c \in Calls : ReportedOnce(c)]_vars

\* C13 witness: a delegation call ended with the failure of its one launch
C13_Witness ==
    \E c \in Calls :
        /\ Returned(c)
        /\ LaunchFailed(c)
        /\ ResultOf(c).status = "error"
        /\ Cardinality(EventAt(c, "create_subprocess_exec")) = 1

\* everything the server holds of the call in slot c
CallState(c) == <<pc[c], frame[c], proc[c], events[c], outcome[c]>>

\* two ended calls with the same request that saw the same of their own
\* subprocess have the same outcome
SameInputsSameOutcome(c, d) ==
    ( /\ ~IsNone(outcome[c])
      /\ ~IsNone(outcome[d])
      /\ frame[c] = frame[d]
      /\ proc[c] = proc[d]
      /\ events[c] = events[d] ) => outcome[c] = outcome[d]

\* a step touches one call only: the signals, the exit and the result of a
\* call leave the other call as it was
OneCallPerStep(c, d) ==
    \/ <<pc'[c], frame'[c], proc'[c], events'[c], outcome'[c]>> = CallState(c)
    \/ <<pc'[d], frame'[d], proc'[d], events'[d], outcome'[d]>> = CallState(d)

\* C14: of two delegation calls running concurrently, under any interleaving
\* of the events of their subprocesses, each one's result depends only on
\* its own request and on the output and exit code of its own subprocess,
\* and terminate and kill of one call reach only that call's subprocess and
\* never change the other call's result.
C14_Independence ==
    /\ [](\A c \in ConcCalls : \A d \in ConcCalls \ {c} :
             SameInputsSameOutcome(c, d))
    /\ [][\A c \in ConcCalls : \A d \in ConcCalls \ {c} :
             OneCallPerStep(c, d)]_vars

\* C14 witness: two calls with the same request overlapped; one timed out
\* and was killed, the other returned its agent's output
C14_Witness ==
    /\ ~IsNone(outcome["c1"])
    /\ ~IsNone(outcome["c2"])
    /\ frame["c1"] = frame["c2"]
    /\ "kill" \in Range(events["c1"])
    /\ Val(outcome["c1"]).value.error_type = "TimeoutError"
    /\ events["c2"][Len(events["c2"])] = "create_subprocess_exec"
    /\ proc["c2"].returncode = Some(0)
    /\ Val(outcome["c2"]).value.status = "success"

\* the wrapper pair (start, end) matches the text: start occurs, and end
\* occurs at or after the end of the first start
PairMatches(text, start, end) ==
    /\ Find(text, start) # -1
    /\ EndsAfterStart(text, start, end) # {}

\* none of the delimiters configured for the call is found in the text: not
\* the wrapper pair and not the single delimiter when they are given, and
\* neither of the defaults when nothing is given
NoDelimiterFound ==
    LET text == parse_args.stdout
        pair == /\ ~IsNone(parse_args.start_delimiter)
                /\ ~IsNone(parse_args.end_delimiter)
        single == ~IsNone(parse_args.delimiter)
    IN  /\ pair => ~PairMatches(text, Val(parse_args.start_delimiter),
                                Val(parse_args.end_delimiter))
        /\ single => Find(text, Val(parse_args.delimiter)) = -1
        /\ (~pair /\ ~single) =>
               /\ ~PairMatches(text, default_start_delimiter,
                               default_end_delimiter)
               /\ Find(text, FINAL_OUTPUT_DELIMITER) = -1

\* C15: with no configured delimiter found and strict false or unset, the
\* resolver returns success, the content is the original text trimmed of
\* surrounding whitespace, and the delimiter flag is false.
C15_SilentFallback ==
    (Parsed /\ NoDelimiterFound /\ parse_args.strict \in {None, Some(FALSE)}) =>
        /\ ParseDict.status = "success"
        /\ ParseDict.content = Strip(parse_args.stdout)
        /\ ~ResolveDelimiters(parse_args.stdout, parse_args.delimiter,
                              parse_args.start_delimiter,
                              parse_args.end_delimiter).has_delimiter

\* C15 witness: strict unset, a start delimiter that occurs with no end
\* after it, and whitespace to trim around a non-empty text
C15_Witness ==
    /\ Parsed
    /\ NoDelimiterFound
    /\ parse_args.strict = None
    /\ ~IsNone(parse_args.start_delimiter)
    /\ ~IsNone(parse_args.end_delimiter)
    /\ Find(parse_args.stdout, Val(parse_args.start_delimiter)) # -1
    /\ Strip(parse_args.stdout) # parse_args.stdout
    /\ Strip(parse_args.stdout) # << >>
    /\ ParseDict.status = "success"

\* the text holds two or more fences: two occurrences that do not overlap
TwoFences(text) ==
    \E i \in Occurrences(text, Fence) :
        \E j \in Occurrences(text, Fence) : j >= i + Len(Fence)

\* the ordered rule of the content-type detection, first match wins
OrderedRule(text) ==
    CASE Contains(text, DiffOldMarker) /\ Contains(text, DiffNewMarker)
             -> "diff"
      [] OTHER ->
         CASE TwoFences(text) -> "code"
           [] OTHER ->
              CASE \E keyword \in Keywords : Contains(Lower(text), keyword)
                       -> "code"
                [] OTHER -> "explanation"

\* C16 as stated: the detected type of a successful result is what the
\* ordered rule gives for the resolved content: diff with both diff
\* markers, else code with two or more fences, else code with a keyword in
\* the lowercase form, else explanation.
C16_OrderedRule ==
    (Parsed /\ ParseDict.status = "success") =>
        /\ ParseDict.detected_type = OrderedRule(ParseDict.content)
        /\ ParseDict.type = ParseDict.detected_type

\* the prompt the call in slot c hands to the invoker
PromptOf(c) ==
    IF IsDelegate(c)
    THEN FullPrompt(frame[c].output_format, frame[c].start_delimiter,
                    frame[c].end_delimiter, frame[c].codex_prompt)
    ELSE frame[c].task_description

\* the flags the invoker emits
InvokerFlags == { <<"-C">>, <<"-c">>, <<"-s">>, <<"--full-auto">> }

\* C17: the built command ends with the end-of-flags marker "--" followed by
\* the prompt as one single final argument, and every flag the invoker emits
\* stands before the marker, so a prompt beginning with a dash is never in
\* flag position.
C17_PromptAfterMarker ==
    \A c \in Calls :
        Built(c) =>
            LET command == frame[c].command
                n == Len(command)
            IN  /\ n >= 4
                /\ command[n] = PromptOf(c)
                /\ command[n - 1] = <<"--">>
                /\ \A i \in 1..n : command[i] = <<"--">> => i >= n - 1
                /\ \A i \in 1..n :
                       (command[i] \in InvokerFlags /\ i # n) => i < n - 1
                /\ \E i \in 1..(n - 2) : command[i] \in InvokerFlags

\* C17 witness: an invocation whose prompt begins with a dash was launched
C17_Witness ==
    \E c \in Calls :
        /\ Built(c)
        /\ PromptOf(c)[1] = "-"
        /\ frame[c].command[Len(frame[c].command)][1] = "-"
        /\ EventAt(c, "create_subprocess_exec") # {}

\* positions of a token in a sequence of arguments
PositionsOf(args, token) == { i \in 1..Len(args) : args[i] = token }

\* C18: the command contains exactly one of --full-auto and -s <sandbox_mode>:
\* --full-auto exactly when execution_mode is on-failure, sandbox_mode is
\* workspace-write and allow_write is true, -s <sandbox_mode> in every other
\* case; no approval-mode flag is emitted.
C18_FullAutoOrSandbox ==
    \A c \in Calls :
        Built(c) =>
            LET flags == FlagsOf(frame[c].command)
                f == frame[c]
                auto == PositionsOf(flags, <<"--full-auto">>)
                explicit == PositionsOf(flags, <<"-s">>)
                convenient == /\ f.execution_mode = "on-failure"
                              /\ f.effective_sandbox_mode = "workspace-write"
                              /\ f.allow_write
            IN  /\ Cardinality(auto) + Cardinality(explicit) = 1
                /\ (auto # {}) <=> convenient
                /\ \A i \in explicit :
                       /\ i < Len(flags)
                       /\ flags[i + 1] = <<f.effective_sandbox_mode>>
                /\ \A i \in 1..Len(flags) :
                       flags[i] \notin { <<"-a">>, <<"--ask-for-approval">>,
                                         <<"--approval-mode">>,
                                         <<f.execution_mode>> }

\* C18 witness: a delegation launched with --full-auto, and nothing else
\* selecting the sandbox
C18_Witness ==
    \E c \in Calls :
        /\ IsDelegate(c)
        /\ Built(c)
        /\ <<"--full-auto">> \in Range(FlagsOf(frame[c].command))
        /\ <<"-s">> \notin Range(FlagsOf(frame[c].command))
        /\ frame[c].execution_mode = "on-failure"
        /\ EventAt(c, "create_subprocess_exec") # {}

\* the caller gave both an explicit wrapper pair and an explicit single
\* delimiter
BothStylesGiven ==
    /\ ~IsNone(parse_args.start_delimiter)
    /\ ~IsNone(parse_args.end_delimiter)
    /\ ~IsNone(parse_args.delimiter)

\* the payload between the first start and the last end of the wrapper pair
WrapperPayload ==
    LET text == parse_args.stdout
        start == Val(parse_args.start_delimiter)
        end == Val(parse_args.end_delimiter)
    IN  Slice(text, Find(text, start) + Len(start),
              SetMax(Occurrences(text, end)))

\* what the single delimiter alone would give: the text after its last
\* occurrence
SinglePayload ==
    LET text == parse_args.stdout
        single == Val(parse_args.delimiter)
    IN  Slice(text, SetMax(Occurrences(text, single)) + Len(single),
              Len(text))

\* C19: given both a wrapper pair and a single delimiter, whenever the
\* wrapper pair yields a payload the content is the wrapper payload and the
\* single delimiter is not applied, also when it occurs in the text.
C19_WrapperPrecedence ==
    (Parsed /\ BothStylesGiven /\ WrapperMatches) =>
        /\ ParseDict.status = "success"
        /\ ParseDict.content = Strip(WrapperPayload)

\* C19 witness: both styles given, the wrapper pair matches, and the single
\* delimiter occurs in the text and alone would give another content
C19_Witness ==
    /\ Parsed
    /\ BothStylesGiven
    /\ WrapperMatches
    /\ Val(parse_args.delimiter) # << >>
    /\ Occurrences(parse_args.stdout, Val(parse_args.delimiter)) # {}
    /\ Strip(SinglePayload) # Strip(WrapperPayload)
    /\ ParseDict.content = Strip(WrapperPayload)
    /\ ParseDict.content # << >>

Brackets == {"[", "]"}

\* positions of the backslashes that stand right before a bracket
EscapingPositions(text) ==
    { i \in 1..(Len(text) - 1) : text[i] = "\\" /\ text[i + 1] \in Brackets }

\* the text without the characters at the given positions
RECURSIVE Without(_, _)
Without(text, positions) ==
    IF text = << >> THEN << >>
    ELSE LET n == Len(text)
             front == Without(SubSeq(text, 1, n - 1), positions)
         IN  IF n \in positions THEN front ELSE Append(front, text[n])

\* C20: in the display-escaped form every "[" and every "]" is immediately
\* preceded by a backslash, and removing the inserted backslashes, one
\* before each bracket, gives back the original delimiter.
C20_EscapeRoundTrip ==
    ~IsNone(escape_result) =>
        LET shown == Val(escape_result)
        IN  /\ \A i \in 1..Len(shown) :
                   shown[i] \in Brackets => (i > 1 /\ shown[i - 1] = "\\")
            /\ Without(shown, EscapingPositions(shown)) = escape_arg
            /\ Len(shown) = Len(escape_arg)
                   + Cardinality({ i \in 1..Len(escape_arg) :
                                       escape_arg[i] \in Brackets })

\* C20 witness: a delimiter with both brackets and a backslash of its own
\* was escaped
C20_Witness ==
    /\ ~IsNone(escape_result)
    /\ {"[", "]", "\\"} \subseteq Range(escape_arg)
    /\ Len(Val(escape_result)) = Len(escape_arg) + 2

\* the directory was found valid and the admission collaborator said no
AdmissionRejected(c) ==
    /\ IsDelegate(c)
    /\ frame[c].answers = <<"true", "false">>

\* C21: when the admission collaborator rejects the task and the directory
\* is valid, the call returns status rejected, never status error, the
\* result names the task as not suitable, and no other result has the
\* status rejected.
C21_RejectedStatus ==
    \A c \in Calls :
        /\ (Ended(c) /\ AdmissionRejected(c)) =>
               /\ Outcome(c).kind = "return"
               /\ ResultOf(c).status = "rejected"
               /\ ResultOf(c).status # "error"
               /\ ResultOf(c).reason = "Task not suitable for Codex delegation"
        /\ (Returned(c) /\ ResultOf(c).status = "rejected") =>
               AdmissionRejected(c)

\* C21 witness: a call whose directory passed and whose task was rejected
\* has returned
C21_Witness ==
    \E c \in Calls :
        /\ Returned(c)
        /\ AdmissionRejected(c)
        /\ events[c] = <<"validate_working_directory", "should_delegate">>
        /\ ResultOf(c).status = "rejected"

\* the delimiter configuration the resolver searched for, by the branch of
\* the extraction it took
SearchedDelimiters ==
    IF ~IsNone(parse_args.start_delimiter) /\ ~IsNone(parse_args.end_delimiter)
    THEN [kind |-> "wrapper", start |-> Val(parse_args.start_delimiter),
          end |-> Val(parse_args.end_delimiter)]
    ELSE IF ~IsNone(parse_args.delimiter)
    THEN [kind |-> "single", delimiter |-> Val(parse_args.delimiter)]
    ELSE [kind |-> "defaults", start |-> default_start_delimiter,
          end |-> default_end_delimiter, legacy |-> FINAL_OUTPUT_DELIMITER]

\* C22 as stated: in every strict-mode delimiter-missing error the
\* expected-delimiter description names exactly the configuration that was
\* searched: the caller's wrapper pair, the caller's single delimiter, or
\* the full default set, also with an empty start or end delimiter and with
\* only one of start and end given.
C22_ExpectedNamesSearched ==
    (Parsed /\ ParseDict.status = "error") =>
        ParseDict.expected_delimiters = SearchedDelimiters

\* the text the agent of the call in slot c wrote to its standard output
AgentOutput(c) == Val(proc[c].stdout).text

\* a delegation without delimiter override returned after its agent exited
\* with code 0 and an output that carries the legacy single delimiter and
\* no default wrapper pair
LegacyOnly(c) ==
    /\ Returned(c)
    /\ frame[c].start_delimiter = default_start_delimiter
    /\ frame[c].end_delimiter = default_end_delimiter
    /\ proc[c].returncode = Some(0)
    /\ Val(proc[c].stdout).valid
    /\ Val(proc[c].stderr).valid
    /\ ~PairMatches(AgentOutput(c), default_start_delimiter,
                    default_end_delimiter)
    /\ Contains(AgentOutput(c), FINAL_OUTPUT_DELIMITER)

\* C23 as stated: in a delegation call with no delimiter override the
\* default chain applies: output that carries only the legacy single
\* delimiter is resolved to the text after that delimiter, and under strict
\* mode it is not reported as delimiter-missing.
C23_LegacyFallback ==
    \A c \in Calls :
        LegacyOnly(c) =>
            LET text == AgentOutput(c)
                after == SetMax(Occurrences(text, FINAL_OUTPUT_DELIMITER))
                             + Len(FINAL_OUTPUT_DELIMITER)
            IN  /\ ResultOf(c).status = "success"
                /\ ResultOf(c).content = Strip(Slice(text, after, Len(text)))

HasBracket(delimiter) == \E i \in 1..Len(delimiter) : delimiter[i] \in Brackets

\* C24 as stated: for every delimiter pair in which each delimiter has a
\* square bracket, the delimiter instruction contains neither the start nor
\* the end delimiter, so an output that echoes the instruction is resolved
\* as no delimiter found.
C24_EchoSafe ==
    ( /\ Parsed
      /\ HasBracket(Val(parse_args.start_delimiter))
      /\ HasBracket(Val(parse_args.end_delimiter)) ) =>
        /\ ~Contains(parse_args.stdout, Val(parse_args.start_delimiter))
        /\ ~Contains(parse_args.stdout, Val(parse_args.end_delimiter))
        /\ ~ResolveDelimiters(parse_args.stdout, parse_args.delimiter,
                              parse_args.start_delimiter,
                              parse_args.end_delimiter).has_delimiter

\* the directory of the delegation in slot c is invalid
DirectoryInvalid(c) ==
    /\ IsDelegate(c)
    /\ frame[c].dde.validate_working_directory = "false"

\* C25: the directory is validated before the admission check. A delegation
\* whose directory is invalid returns the invalid_directory error, whatever
\* the admission collaborator would say; admission and prompt preparation
\* are not consulted; and the result carries the requested and the
\* effective sandbox mode, and the downgrade notice exactly when the mode was
\* downgraded.
C25_GateOrder ==
    \A c \in Calls :
        (Ended(c) /\ DirectoryInvalid(c)) =>
            /\ Outcome(c).kind = "return"
            /\ ResultOf(c).status = "error"
            /\ ResultOf(c).error_type = "invalid_directory"
            /\ events[c] = <<"validate_working_directory">>
            /\ ResultOf(c).requested_sandbox_mode = frame[c].sandbox_mode
            /\ ResultOf(c).sandbox_mode =
                   IF frame[c].allow_write THEN frame[c].sandbox_mode
                   ELSE "read-only"
            /\ ("operation_mode" \in DOMAIN ResultOf(c)) <=>
                   (~frame[c].allow_write /\ frame[c].sandbox_mode # "read-only")

\* C25 witness: the directory is invalid, the task is unsuitable as well,
\* and write mode was requested without the allowance
C25_Witness ==
    \E c \in Calls :
        /\ Returned(c)
        /\ DirectoryInvalid(c)
        /\ frame[c].dde.should_delegate = "false"
        /\ frame[c].sandbox_mode = "workspace-write"
        /\ ~frame[c].allow_write
        /\ ResultOf(c).error_type = "invalid_directory"
        /\ "operation_mode" \in DOMAIN ResultOf(c)

\* a direct invocation whose agent exited with a nonzero code within the
\* wait bound has ended
NonzeroExit(c) ==
    /\ Ended(c)
    /\ frame[c].entry = "invoke"
    /\ ~IsNone(proc[c].returncode)
    /\ Val(proc[c].returncode) # 0
    /\ EventAt(c, "terminate") = {}

\* C26 as stated: on a nonzero exit within the wait bound the invoker raises
\* the execution failure with that exit code and the trimmed
\* standard-error text, with the placeholder in its place whenever that
\* text is empty, also when it is whitespace only; it never returns
\* (stdout, stderr).
C26_ExecutionFailure ==
    \A c \in Calls :
        NonzeroExit(c) =>
            /\ Outcome(c).kind = "raise"
            /\ Outcome(c).exc.type = "RuntimeError"
            /\ Outcome(c).exc.message.text = "Codex CLI execution failed"
            /\ Outcome(c).exc.message.exit_code = Val(proc[c].returncode)
            /\ Val(proc[c].stderr).valid =>
                   Outcome(c).exc.message.detail =
                       IF Strip(Val(proc[c].stderr).text) = << >>
                       THEN <<"Unknown error">>
                       ELSE Strip(Val(proc[c].stderr).text)

\* an invocation is under way in slot c
Invoking(c) == pc[c] \in {"spawn", "communicate", "grace", "reap"}

\* the outcome of the invocation in slot c was delivered with its agent
\* exited and reaped, or with no agent started at all
NoOrphan(c) ==
    Ended(c) =>
        \/ proc[c].state = "reaped" /\ ~IsNone(proc[c].returncode)
        \/ proc[c].state = "none" /\ LaunchFailed(c)

\* C27: on every outcome of invoke_codex_cli after a subprocess was started
\* the subprocess has exited and been reaped before the outcome is
\* delivered; and, a killed process eventually exiting, every invocation
\* eventually delivers an outcome.
C27_NoOrphan ==
    /\ [](\A c \in Calls : NoOrphan(c))
    /\ \A c \in Calls : Invoking(c) ~> Ended(c)

\* C27 witness: an invocation that timed out and had to kill its agent
\* delivered its outcome with the agent reaped
C27_Witness ==
    \E c \in Calls :
        /\ frame[c].entry = "invoke"
        /\ Ended(c)
        /\ events[c] = <<"create_subprocess_exec", "terminate", "kill">>
        /\ proc[c].state = "reaped"
        /\ Outcome(c).kind = "raise"
        /\ Outcome(c).exc.type = "TimeoutError"

\* the sandbox mode the command of the call in slot c runs the agent in
CommandSandboxMode(c) ==
    LET flags == FlagsOf(frame[c].command)
    IN  IF <<"--full-auto">> \in Range(flags) THEN "workspace-write"
        ELSE LET i == CHOOSE i \in 1..(Len(flags) - 1) : flags[i] = <<"-s">>
             IN  flags[i + 1][1]

\* C28: within one delegation call the write allowance is read once: the
\* sandbox_mode of the response is the mode the command was built with, and
\* a downgrade notice is present only if the command carries the
\* empty-permission override, also when CODEX_ALLOW_WRITE changes while the
\* call awaits the subprocess.
C28_PerCallConsistency ==
    \A c \in Calls :
        (Returned(c) /\ Built(c)) =>
            LET flags == FlagsOf(frame[c].command)
            IN  /\ ResultOf(c).sandbox_mode = CommandSandboxMode(c)
                /\ ("operation_mode" \in DOMAIN ResultOf(c)) =>
                       HasPair(flags, <<"-c">>, <<"sandbox_permissions=[]">>)
                /\ HasPair(flags, <<"-c">>, <<"sandbox_permissions=[]">>)
                       <=> ~frame[c].allow_write

\* C28 witness: the call was started with write not allowed and a write
\* mode requested, the allowance was switched on while the agent ran, and
\* the call returned with the downgrade notice
C28_Witness ==
    \E c \in Calls :
        /\ Returned(c)
        /\ Built(c)
        /\ ~frame[c].allow_write
        /\ AllowWrite(environ)
        /\ frame[c].sandbox_mode = "workspace-write"
        /\ ResultOf(c).sandbox_mode = "read-only"
        /\ "operation_mode" \in DOMAIN ResultOf(c)
        /\ proc[c].state = "reaped"

====
